---- MODULE Spec2Model ----
(***************************************************************************)
(* A model of the data-loading pipeline of the stale-inventory dashboard   *)
(* (src/app1.py): detect_encoding, load_data, and the part of main that    *)
(* loads the uploaded file, filters it and exports the filtered table.     *)
(*                                                                         *)
(* Representation.  A byte string and a text are both sequences of         *)
(* integers: a byte (0..255) or a Unicode code point.  A negative element  *)
(* -n stands for n consecutive copies of PadByte (the letter 'a'), so that *)
(* a file longer than the 10000-byte detection sample can be written down  *)
(* without 10000 elements.  The codecs below decode and encode such        *)
(* sequences the way Python's codecs do; the GBK and cp1252 tables hold    *)
(* the entries the model's files can present (GbkTableCovers states it).   *)
(*                                                                         *)
(* A stream of bytes is kept as its lines, each line as its cells: the     *)
(* separators ',' (between the cells of a line) and '\n' (after every      *)
(* line) are bytes of the stream that are not written down.  Each of the   *)
(* codecs decodes the two separators as themselves and accepts neither     *)
(* inside a multi-byte sequence, so a stream decodes when each of its      *)
(* cells does, and the decoded text has the same lines and cells.  The     *)
(* model's files hold no quotes, no embedded separators and no repeated    *)
(* header, so pandas' quoting and duplicate-header mangling are not        *)
(* exercised.  Numbers are integers, 'inf' and '-inf'; the rounding of     *)
(* binary floating point is not modelled (quotients are exact rationals).  *)
(***************************************************************************)
EXTENDS Integers, Sequences, FiniteSets, TLC

VARIABLES
    uploaded_file,      \* bytes of the file held by the uploader widget, or None
    pos,                \* position of the uploaded file's stream
    encoding_option,    \* the sidebar's encoding selectbox
    df,                 \* main's df: the loaded table, or None
    messages,           \* what the run reported through st.error/st.info/st.warning
    loads,              \* the load_data calls of the run, with their read attempts
    crashed,            \* main raised past load_data (an uncaught exception)
    selected_store,     \* the store selectbox
    selected_category,  \* the category selectbox
    filtered_df,        \* main's filtered_df, or None
    csv,                \* the bytes offered by the CSV download button, or None
    exported_from       \* for a re-imported export: the filtered table it was written from

vars == <<uploaded_file, pos, encoding_option, df, messages, loads, crashed,
          selected_store, selected_category, filtered_df, csv, exported_from>>

None == [none |-> TRUE]

(***************************************************************************)
(* Bounds of the model.                                                    *)
(***************************************************************************)
\* Length of the ASCII filler of a long cell; with the other cells of the
\* file it puts the end of the detection sample inside a multi-byte character.
LongPad == 9898
\* The largest stale quantity a numeric cell holds.
MaxQty == 120
\* How many aliases of one field a header carries at once.
MaxAliases == 2
\* Fractional digits written for a float that is no integer.
FracDigits == 3

(***************************************************************************)
(* Program constants.                                                      *)
(***************************************************************************)
SampleSize == 10000
PadByte == 97

encodings == <<"utf-8", "gbk", "gb2312", "latin1", "cp1252", "iso-8859-1">>

AutoDetect == "auto"
EncodingOptions == <<AutoDetect, "utf-8", "gbk", "gb2312", "latin1", "cp1252">>
ManualEncodings == <<"utf-8", "gbk", "gb2312", "latin1", "cp1252">>

All == <<20840, 37096>>  \* the selectboxes' option '全部'

(* Column names as sequences of Unicode code points. *)
N_store == <<24215, 38138>>  \* '店铺'
A_mendian == <<38376, 24215>>  \* '门店'
N_product == <<21697, 21517>>  \* '品名'
N_category == <<20135, 21697, 31867, 21035>>  \* '产品类别'
N_Msku == <<77, 115, 107, 117>>  \* 'Msku'
N_daily == <<26085, 22343>>  \* '日均'
N_last_month == <<19978, 26376, 28382, 38144>>  \* '上月滞销'
N_this_month == <<26412, 26376, 28382, 38144>>  \* '本月滞销'
N_change == <<28382, 38144, 25968, 37327, 21464, 21270>>  \* '滞销数量变化'
N_change_pct == <<21464, 21270, 30334, 20998, 27604>>  \* '变化百分比'

required_columns ==
    <<N_store, N_product, N_category, N_Msku, N_daily, N_last_month, N_this_month>>

column_mapping ==
    <<[std |-> N_store,
       names |-> <<N_store,  \* '店铺'
                   <<115, 116, 111, 114, 101>>,  \* 'store'
                   <<83, 104, 111, 112>>,  \* 'Shop'
                   A_mendian>>],  \* '门店'
      [std |-> N_product,
       names |-> <<N_product,  \* '品名'
                   <<20135, 21697, 21517, 31216>>,  \* '产品名称'
                   <<112, 114, 111, 100, 117, 99, 116>>,  \* 'product'
                   <<80, 114, 111, 100, 117, 99, 116>>,  \* 'Product'
                   <<21830, 21697, 21517, 31216>>>>],  \* '商品名称'
      [std |-> N_category,
       names |-> <<N_category,  \* '产品类别'
                   <<99, 97, 116, 101, 103, 111, 114, 121>>,  \* 'category'
                   <<67, 97, 116, 101, 103, 111, 114, 121>>,  \* 'Category'
                   <<21697, 31867>>>>],  \* '品类'
      [std |-> N_Msku,
       names |-> <<N_Msku,  \* 'Msku'
                   <<77, 83, 75, 85>>,  \* 'MSKU'
                   <<115, 107, 117>>,  \* 'sku'
                   <<83, 75, 85>>>>],  \* 'SKU'
      [std |-> N_daily,
       names |-> <<N_daily,  \* '日均'
                   <<26085, 22343, 38144, 37327>>,  \* '日均销量'
                   <<100, 97, 105, 108, 121>>,  \* 'daily'
                   <<68, 97, 105, 108, 121>>,  \* 'Daily'
                   <<24179, 22343, 38144, 37327>>>>],  \* '平均销量'
      [std |-> N_last_month,
       names |-> <<N_last_month,  \* '上月滞销'
                   <<19978, 26376, 28382, 38144, 25968, 37327>>,  \* '上月滞销数量'
                   <<108, 97, 115, 116, 95, 109, 111, 110, 116, 104>>,  \* 'last_month'
                   <<76, 97, 115, 116, 77, 111, 110, 116, 104>>,  \* 'LastMonth'
                   <<19978, 26376, 24211, 23384>>>>],  \* '上月库存'
      [std |-> N_this_month,
       names |-> <<N_this_month,  \* '本月滞销'
                   <<26412, 26376, 28382, 38144, 25968, 37327>>,  \* '本月滞销数量'
                   <<116, 104, 105, 115, 95, 109, 111, 110, 116, 104>>,  \* 'this_month'
                   <<84, 104, 105, 115, 77, 111, 110, 116, 104>>,  \* 'ThisMonth'
                   <<26412, 26376, 24211, 23384>>>>]>>  \* '本月库存'

Cp1252High ==
    <<8364, -1, 8218, 402, 8222, 8230, 8224, 8225,
      710, 8240, 352, 8249, 338, -1, 381, -1,
      -1, 8216, 8217, 8220, 8221, 8226, 8211, 8212,
      732, 8482, 353, 8250, 339, -1, 382, 376>>

GbkPairs ==
    <<<<33253, 20344>>, <<33255, 20346>>, <<33507, 20632>>, <<33731, 20832>>, <<33957, 21132>>,
      <<34242, 21538>>, <<34533, 21975>>, <<34534, 21976>>, <<34703, 22138>>, <<34793, 22252>>,
      <<34950, 22414>>, <<34987, 22470>>, <<35045, 22557>>, <<35046, 22559>>, <<35558, 23107>>,
      <<35990, 23538>>, <<36327, 23943>>, <<36760, 24393>>, <<36837, 24531>>, <<37005, 24725>>,
      <<37761, 25639>>, <<37818, 25717>>, <<37861, 25779>>, <<38016, 25890>>, <<38082, 25989>>,
      <<38278, 26210>>, <<38293, 26235>>, <<38320, 26271>>, <<38541, 26509>>, <<38631, 26667>>,
      <<38786, 26811>>, <<38821, 26857>>, <<38824, 26860>>, <<38850, 26900>>, <<38889, 26949>>,
      <<39141, 27194>>, <<39358, 27368>>, <<40072, 28224>>, <<40108, 28272>>, <<40327, 28494>>,
      <<40681, 28858>>, <<42434, 12482>>, <<42469, 12517>>, <<42471, 12519>>, <<42928, 1054>>,
      <<42981, 1091>>, <<43203, -1>>, <<43237, 12581>>, <<43334, 12327>>, <<43361, 12443>>,
      <<43458, 9502>>, <<43490, 9534>>, <<44262, -1>>, <<44440, 29928>>, <<44948, 30254>>,
      <<45237, 26263>>, <<45289, 20276>>, <<45499, 34987>>, <<45502, 26412>>, <<45552, 21035>>,
      <<45818, 20135>>, <<46053, 20914>>, <<46531, 24471>>, <<46570, 24215>>, <<47040, 38450>>,
      <<47043, 35775>>, <<47242, 31490>>, <<47539, 38057>>, <<47763, 31793>>, <<47767, 31797>>,
      <<47783, 39559>>, <<47810, 37085>>, <<47842, 34913>>, <<48030, 31928>>, <<48101, 35826>>,
      <<48852, 39545>>, <<48869, 24807>>, <<48889, 22343>>, <<49376, 31867>>, <<49793, 32859>>,
      <<49815, 32884>>, <<49832, 31699>>, <<49845, 30860>>, <<49850, 28510>>, <<49878, 36718>>,
      <<50051, 33049>>, <<50053, 33052>>, <<50085, 27667>>, <<50089, 33541>>, <<50090, 38170>>,
      <<50111, 27599>>, <<50117, 38376>>, <<50171, 21517>>, <<50613, 35834>>, <<50871, 21697>>,
      <<50892, 38138>>, <<51413, 26085>>, <<51663, 19978>>, <<52687, 25302>>, <<53204, 26174>>,
      <<53242, 38144>>, <<54466, 26376>>, <<54718, 31449>>, <<54989, 28382>>, <<57521, 21886>>,
      <<57984, 37413>>, <<58244, 37514>>, <<58552, 28051>>, <<58554, 27996>>, <<58760, 37714>>,
      <<58764, 37718>>, <<58767, 37721>>, <<58768, 37722>>, <<58771, 37725>>, <<58773, 37727>>,
      <<58781, 37735>>, <<58797, 28699>>, <<58809, 39582>>, <<58810, 25652>>, <<59029, 37825>>,
      <<59031, 37827>>, <<59036, 37832>>, <<59055, 23011>>, <<59067, 23114>>, <<59289, 37927>>,
      <<59303, 32457>>, <<59312, 32488>>, <<59313, 32491>>, <<59718, 38229>>, <<59745, 38285>>,
      <<59783, 38322>>, <<59795, 38334>>, <<59796, 38335>>, <<59797, 38336>>, <<59798, 38337>>,
      <<59799, 38338>>, <<60102, 26166>>, <<64198, -1>>>>

GbkMap == [key \in {GbkPairs[i][1] : i \in DOMAIN GbkPairs} |->
              GbkPairs[CHOOSE i \in DOMAIN GbkPairs : GbkPairs[i][1] = key][2]]

Gb2312Pairs ==
    {42434, 42469, 42471, 42928, 42981, 43237, 43458, 43490, 45237, 45289, 45499, 45502,
     45552, 45818, 46053, 46531, 46570, 47040, 47043, 47539, 47783, 47810, 47842, 48101,
     48852, 48869, 48889, 49376, 49832, 49845, 49850, 49878, 50085, 50089, 50090, 50111,
     50117, 50171, 50613, 50871, 50892, 51413, 51663, 52687, 53204, 53242, 54466, 54718,
     54989, 57521, 58552, 58554, 58797, 58809, 58810, 59055, 59067, 59303, 59312, 59313,
     60102}

(***************************************************************************)
(* Byte strings, texts and streams.                                        *)
(***************************************************************************)
Units(e) == IF e < 0 THEN -e ELSE 1

RECURSIVE LenFrom(_, _)
LenFrom(s, i) == IF i > Len(s) THEN 0 ELSE Units(s[i]) + LenFrom(s, i + 1)

\* Number of bytes of a cell.
CellSize(s) == LenFrom(s, 1)

RECURSIVE TakeFrom(_, _, _)
TakeFrom(s, i, n) ==
    IF i > Len(s) \/ n <= 0 THEN <<>>
    ELSE IF Units(s[i]) <= n THEN <<s[i]>> \o TakeFrom(s, i + 1, n - Units(s[i]))
    ELSE <<-n>>

RECURSIVE DropFrom(_, _, _)
DropFrom(s, i, n) ==
    IF i > Len(s) THEN <<>>
    ELSE IF n <= 0 THEN SubSeq(s, i, Len(s))
    ELSE IF Units(s[i]) <= n THEN DropFrom(s, i + 1, n - Units(s[i]))
    ELSE IF Units(s[i]) - n = 1 THEN <<PadByte>> \o SubSeq(s, i + 1, Len(s))
    ELSE <<-(Units(s[i]) - n)>> \o SubSeq(s, i + 1, Len(s))

RECURSIVE Concat(_, _)
Concat(seqs, i) == IF i > Len(seqs) THEN <<>> ELSE seqs[i] \o Concat(seqs, i + 1)

\* Bytes of a line: its cells, a separator after each.
RECURSIVE LineSizeFrom(_, _)
LineSizeFrom(line, j) ==
    IF j > Len(line) THEN 0 ELSE CellSize(line[j]) + 1 + LineSizeFrom(line, j + 1)

LineSize(line) == LineSizeFrom(line, 1)

RECURSIVE SizeFrom(_, _)
SizeFrom(stream, i) ==
    IF i > Len(stream) THEN 0 ELSE LineSize(stream[i]) + SizeFrom(stream, i + 1)

\* Number of bytes of a stream.
Size(stream) == SizeFrom(stream, 1)

\* The first n bytes of the cells 'cells' (each followed by a separator), as
\* the pieces between separators; the last piece may be cut short.
RECURSIVE TakeCells(_, _, _)
TakeCells(cells, j, n) ==
    IF j > Len(cells) \/ n <= 0 THEN <<>>
    ELSE IF CellSize(cells[j]) >= n THEN <<TakeFrom(cells[j], 1, n)>>
    ELSE <<cells[j]>> \o TakeCells(cells, j + 1, n - CellSize(cells[j]) - 1)

\* A line without its first n bytes (n less than the line's size).
RECURSIVE DropCells(_, _, _)
DropCells(line, j, n) ==
    IF n > CellSize(line[j]) THEN DropCells(line, j + 1, n - CellSize(line[j]) - 1)
    ELSE <<DropFrom(line[j], 1, n)>> \o SubSeq(line, j + 1, Len(line))

RECURSIVE DropLines(_, _, _)
DropLines(stream, i, n) ==
    IF i > Len(stream) THEN <<>>
    ELSE IF n <= 0 THEN SubSeq(stream, i, Len(stream))
    ELSE IF n >= LineSize(stream[i]) THEN DropLines(stream, i + 1, n - LineSize(stream[i]))
    ELSE <<DropCells(stream[i], 1, n)>> \o SubSeq(stream, i + 1, Len(stream))

\* file.read() at position p: the rest of the stream.
ReadRest(stream, p) == DropLines(stream, 1, p)

\* file.read(n) at position p: the bytes read, as the pieces between separators.
ReadBytes(stream, p, n) == TakeCells(Concat(ReadRest(stream, p), 1), 1, n)

DecodeError == [ok |-> FALSE, text |-> <<>>]
Decoded(t) == [ok |-> TRUE, text |-> t]

(***************************************************************************)
(* Codecs (bytes.decode / str.encode), strict error handling.              *)
(***************************************************************************)
IsCont(b) == b >= 128 /\ b <= 191

\* Number of continuation bytes after lead byte b; -1 when b cannot lead.
Utf8Follow(b) ==
    IF b >= 194 /\ b <= 223 THEN 1
    ELSE IF b >= 224 /\ b <= 239 THEN 2
    ELSE IF b >= 240 /\ b <= 244 THEN 3
    ELSE -1

\* The second byte's narrower range after E0, ED, F0 and F4.
Utf8SecondOk(b, c) ==
    /\ IsCont(c)
    /\ (b = 224 => c >= 160)
    /\ (b = 237 => c <= 159)
    /\ (b = 240 => c >= 144)
    /\ (b = 244 => c <= 143)

RECURSIVE Utf8DecodeFrom(_, _, _)
Utf8DecodeFrom(s, i, out) ==
    IF i > Len(s) THEN Decoded(out)
    ELSE LET b == s[i] IN
        IF b < 128 THEN Utf8DecodeFrom(s, i + 1, Append(out, b))
        ELSE LET n == Utf8Follow(b) IN
            IF n < 0 \/ i + n > Len(s) THEN DecodeError
            ELSE IF ~Utf8SecondOk(b, s[i + 1]) THEN DecodeError
            ELSE IF n = 1
                THEN Utf8DecodeFrom(s, i + 2,
                        Append(out, (b - 192) * 64 + (s[i + 1] - 128)))
            ELSE IF ~IsCont(s[i + 2]) THEN DecodeError
            ELSE IF n = 2
                THEN Utf8DecodeFrom(s, i + 3,
                        Append(out, (b - 224) * 4096 + (s[i + 1] - 128) * 64
                                    + (s[i + 2] - 128)))
            ELSE IF ~IsCont(s[i + 3]) THEN DecodeError
            ELSE Utf8DecodeFrom(s, i + 4,
                        Append(out, (b - 240) * 262144 + (s[i + 1] - 128) * 4096
                                    + (s[i + 2] - 128) * 64 + (s[i + 3] - 128)))

Utf8Decode(s) == Utf8DecodeFrom(s, 1, <<>>)

\* A two-byte sequence of GBK: lead 0x81..0xFE, trail 0x40..0xFE but 0x7F.
GbkLead(b) == b >= 129 /\ b <= 254
GbkTrail(t) == t >= 64 /\ t <= 254 /\ t # 127
GbkKey(b, t) == b * 256 + t
GbkMapped(b, t) ==
    /\ GbkTrail(t)
    /\ GbkKey(b, t) \in DOMAIN GbkMap
    /\ GbkMap[GbkKey(b, t)] >= 0
Gb2312Mapped(b, t) == GbkMapped(b, t) /\ GbkKey(b, t) \in Gb2312Pairs

\* What is left of a filler run after its first byte was taken as a trail byte.
RestOfRun(e) == IF e >= -1 THEN <<>> ELSE IF e = -2 THEN <<PadByte>> ELSE <<e + 1>>
FirstByte(e) == IF e < 0 THEN PadByte ELSE e

RECURSIVE DbcsDecodeFrom(_, _, _, _)
DbcsDecodeFrom(s, i, out, gb2312) ==
    IF i > Len(s) THEN Decoded(out)
    ELSE LET b == s[i] IN
        IF b < 128 THEN DbcsDecodeFrom(s, i + 1, Append(out, b), gb2312)
        ELSE IF ~GbkLead(b) \/ i + 1 > Len(s) THEN DecodeError
        ELSE LET t == FirstByte(s[i + 1]) IN
            IF IF gb2312 THEN Gb2312Mapped(b, t) ELSE GbkMapped(b, t)
            THEN DbcsDecodeFrom(s, i + 2,
                    Append(out, GbkMap[GbkKey(b, t)]) \o RestOfRun(s[i + 1]), gb2312)
            ELSE DecodeError

GbkDecode(s) == DbcsDecodeFrom(s, 1, <<>>, FALSE)
Gb2312Decode(s) == DbcsDecodeFrom(s, 1, <<>>, TRUE)

\* latin1 (iso-8859-1) maps every byte to the code point of the same number.
Latin1Decode(s) == Decoded(s)

Cp1252Char(b) == IF b >= 128 /\ b <= 159 THEN Cp1252High[b - 127] ELSE b

Cp1252Decode(s) ==
    IF \E i \in 1..Len(s) : Cp1252Char(s[i]) < 0 /\ s[i] >= 0
    THEN DecodeError
    ELSE Decoded([i \in 1..Len(s) |-> IF s[i] < 0 THEN s[i] ELSE Cp1252Char(s[i])])

\* bytes.decode(encoding) on the bytes of one cell.
DecodeCell(s, encoding) ==
    CASE encoding = "utf-8"      -> Utf8Decode(s)
      [] encoding = "gbk"        -> GbkDecode(s)
      [] encoding = "gb2312"     -> Gb2312Decode(s)
      [] encoding = "latin1"     -> Latin1Decode(s)
      [] encoding = "cp1252"     -> Cp1252Decode(s)
      [] encoding = "iso-8859-1" -> Latin1Decode(s)

\* bytes.decode(encoding) on bytes given as the pieces between separators:
\* whether it raises no UnicodeDecodeError.
Decodes(pieces, encoding) ==
    \A j \in 1..Len(pieces) : DecodeCell(pieces[j], encoding).ok

\* The text of a stream that decodes, line by line and cell by cell.
DecodeStream(stream, encoding) ==
    [i \in 1..Len(stream) |->
        [j \in 1..Len(stream[i]) |-> DecodeCell(stream[i][j], encoding).text]]

Utf8Char(c) ==
    IF c < 128 THEN <<c>>
    ELSE IF c < 2048 THEN <<192 + (c \div 64), 128 + (c % 64)>>
    ELSE IF c < 65536
        THEN <<224 + (c \div 4096), 128 + ((c \div 64) % 64), 128 + (c % 64)>>
    ELSE <<240 + (c \div 262144), 128 + ((c \div 4096) % 64),
           128 + ((c \div 64) % 64), 128 + (c % 64)>>

RECURSIVE Utf8EncodeFrom(_, _)
Utf8EncodeFrom(t, i) ==
    IF i > Len(t) THEN <<>> ELSE Utf8Char(t[i]) \o Utf8EncodeFrom(t, i + 1)

\* str.encode('utf-8')
Utf8Encode(t) == Utf8EncodeFrom(t, 1)


\* The bytes of a text file written in UTF-8.
EncodeStream(lines) ==
    [i \in 1..Len(lines) |-> [j \in 1..Len(lines[i]) |-> Utf8Encode(lines[i][j])]]

(***************************************************************************)
(* pandas.read_csv: the stream from its current position, decoded; the     *)
(* first line is the header, the others are the records.                   *)
(***************************************************************************)
\* A record with fewer fields than the header is filled with empty cells.
PadRow(row, n) == [j \in 1..n |-> IF j <= Len(row) THEN row[j] ELSE <<>>]

\* A table: 'columns' the names, 'data' one sequence of cells per column,
\* 'dtype' the type of each column ("object", "int64" or "float64").
Frame(columns, data, dtype) == [columns |-> columns, data |-> data, dtype |-> dtype]

NRows(d) == IF Len(d.data) = 0 THEN 0 ELSE Len(d.data[1])

ReadResult(status, frame) == [status |-> status, frame |-> frame]

\* Blank lines are skipped (skip_blank_lines).
NonBlank(lines) == SelectSeq(lines, LAMBDA l : l # <<<<>>>>)

\* The table the decoded lines hold: the first is the header, the others the
\* records; a record with more fields than the header is a ParserError.
ParseLines(lines) ==
    IF lines = <<>> THEN ReadResult("EmptyDataError", None)
    ELSE IF \E r \in 2..Len(lines) : Len(lines[r]) > Len(lines[1])
        THEN ReadResult("ParserError", None)
    ELSE ReadResult("ok",
            Frame(lines[1],
                  [c \in 1..Len(lines[1]) |->
                      [r \in 1..(Len(lines) - 1) |->
                          PadRow(lines[r + 1], Len(lines[1]))[c]]],
                  [c \in 1..Len(lines[1]) |-> "object"]))

\* The bytes read decoded as a whole, then parsed.
ReadRaw(raw, encoding) ==
    IF raw = <<>> THEN ReadResult("EmptyDataError", None)
    ELSE IF ~Decodes(Concat(raw, 1), encoding)
        THEN ReadResult("UnicodeDecodeError", None)
    ELSE ParseLines(NonBlank(DecodeStream(raw, encoding)))

\* pd.read_csv(stream, encoding=encoding) with the stream at position p.
read_csv(stream, p, encoding) == ReadRaw(ReadRest(stream, p), encoding)

(***************************************************************************)
(* Numbers: a finite value is the rational n/d (d > 0, lowest terms), and  *)
(* there are the floating-point values inf, -inf and NaN.                  *)
(***************************************************************************)
Fin(n, d) == [k |-> "fin", n |-> n, d |-> d]
Inf(sign) == [k |-> "inf", n |-> sign, d |-> 0]
NaN == [k |-> "nan", n |-> 0, d |-> 0]

Abs(x) == IF x < 0 THEN -x ELSE x
Sign(x) == IF x < 0 THEN -1 ELSE 1

RECURSIVE Gcd(_, _)
Gcd(a, b) == IF b = 0 THEN a ELSE Gcd(b, a % b)

\* The rational n/d in lowest terms with a positive denominator.
Ratio(n, d) ==
    LET g == Gcd(Abs(n), Abs(d)) IN Fin(Sign(d) * (n \div g), Abs(d) \div g)

IsDigit(c) == c >= 48 /\ c <= 57

RECURSIVE DigitsValue(_, _, _)
DigitsValue(t, i, acc) ==
    IF i > Len(t) THEN acc ELSE DigitsValue(t, i + 1, acc * 10 + (t[i] - 48))

AllDigits(t) == t # <<>> /\ \A i \in 1..Len(t) : IsDigit(t[i])
AllZeros(t) == \A i \in 1..Len(t) : t[i] = 48

TextInf == <<105, 110, 102>>       \* 'inf'
Minus == 45
Dot == 46

\* The digits before and after the decimal point of an unsigned numeral.
IntPart(t) ==
    IF \E i \in 1..Len(t) : t[i] = Dot
    THEN SubSeq(t, 1, (CHOOSE i \in 1..Len(t) :
                          t[i] = Dot /\ \A j \in 1..(i - 1) : t[j] # Dot) - 1)
    ELSE t
FracPart(t) == SubSeq(t, Len(IntPart(t)) + 2, Len(t))
HasDot(t) == Len(IntPart(t)) < Len(t)

\* An unsigned numeral of the model: digits, or digits '.' zeros.
IsNumeral(t) ==
    /\ AllDigits(IntPart(t))
    /\ HasDot(t) => AllZeros(FracPart(t))

Unsigned(t) == IF t # <<>> /\ t[1] = Minus THEN Tail(t) ELSE t
SignOf(t) == IF t # <<>> /\ t[1] = Minus THEN -1 ELSE 1

\* pd.to_numeric(cell, errors='coerce'): the number a cell holds, NaN when it
\* holds none.
to_numeric(t) ==
    IF Unsigned(t) = TextInf THEN Inf(SignOf(t))
    ELSE IF IsNumeral(Unsigned(t))
        THEN Fin(SignOf(t) * DigitsValue(IntPart(Unsigned(t)), 1, 0), 1)
    ELSE NaN

\* Whether the cell parses as an integer (an int64 column holds only these).
IsIntCell(t) == IsNumeral(Unsigned(t)) /\ ~HasDot(t)

\* Series.fillna(0)
fillna(v) == IF v = NaN THEN Fin(0, 1) ELSE v

\* A replace that leaves zeros in place: the division without its guard.
ReplaceNothing(v) == v

\* Series.replace(0, 1)
replace_0_1(v) == IF v.k = "fin" /\ v.n = 0 THEN Fin(1, 1) ELSE v

\* Floating-point subtraction a - b.
Sub(a, b) ==
    IF a.k = "nan" \/ b.k = "nan" THEN NaN
    ELSE IF a.k = "inf" /\ b.k = "inf" THEN IF a.n = b.n THEN NaN ELSE a
    ELSE IF a.k = "inf" THEN a
    ELSE IF b.k = "inf" THEN Inf(-b.n)
    ELSE Ratio(a.n * b.d - b.n * a.d, a.d * b.d)

\* Floating-point division a / b.
Div(a, b) ==
    IF a.k = "nan" \/ b.k = "nan" THEN NaN
    ELSE IF a.k = "inf" /\ b.k = "inf" THEN NaN
    ELSE IF a.k = "inf" THEN Inf(a.n * Sign(b.n))
    ELSE IF b.k = "inf" THEN Fin(0, 1)
    ELSE IF b.n = 0 THEN IF a.n = 0 THEN NaN ELSE Inf(Sign(a.n))
    ELSE Ratio(a.n * b.d, a.d * b.n)

\* Floating-point multiplication by a positive integer.
Times(a, m) == IF a.k = "fin" THEN Ratio(a.n * m, a.d) ELSE a

(***************************************************************************)
(* DataFrame.to_csv: how numbers are written.                              *)
(***************************************************************************)
RECURSIVE Digits(_)
Digits(n) == IF n < 10 THEN <<48 + n>> ELSE Append(Digits(n \div 10), 48 + (n % 10))

FormatInt(n) == IF n < 0 THEN <<Minus>> \o Digits(-n) ELSE Digits(n)

\* The decimal digits of r/d (r < d), at most 'places' of them.
RECURSIVE Fraction(_, _, _)
Fraction(r, d, places) ==
    IF r = 0 \/ places = 0 THEN <<>>
    ELSE <<48 + ((r * 10) \div d)>> \o Fraction((r * 10) % d, d, places - 1)

\* repr of a float: 20.0, 33.333, inf, -inf; NaN is written as an empty cell.
FormatFloat(v) ==
    IF v.k = "nan" THEN <<>>
    ELSE IF v.k = "inf" THEN (IF v.n < 0 THEN <<Minus>> ELSE <<>>) \o TextInf
    ELSE LET q == Abs(v.n) \div v.d
             r == Abs(v.n) % v.d
         IN (IF v.n < 0 THEN <<Minus>> ELSE <<>>) \o Digits(q) \o <<Dot>>
            \o (IF r = 0 THEN <<48>> ELSE Fraction(r, v.d, FracDigits))

FormatCell(cell, dtype) ==
    CASE dtype = "object"  -> cell
      [] dtype = "int64"   -> FormatInt(cell.n)
      [] dtype = "float64" -> FormatFloat(cell)

\* DataFrame.to_csv(index=False): the text written, a header line and a
\* line per row.
to_csv(d) ==
    <<d.columns>>
    \o [r \in 1..NRows(d) |->
          [c \in 1..Len(d.columns) |-> FormatCell(d.data[c][r], d.dtype[c])]]

(***************************************************************************)
(* DataFrame operations used by load_data and main.                        *)
(***************************************************************************)
Range(s) == {s[i] : i \in 1..Len(s)}

\* Position of the column called name; 0 when the frame has none.
ColIndex(d, name) ==
    IF \E i \in 1..Len(d.columns) : d.columns[i] = name
    THEN CHOOSE i \in 1..Len(d.columns) :
            d.columns[i] = name /\ \A j \in 1..(i - 1) : d.columns[j] # name
    ELSE 0

HasColumn(d, name) == ColIndex(d, name) # 0

\* df[name]
Column(d, name) == d.data[ColIndex(d, name)]

\* df[name] = cells: replaces the column, or appends it when it is new.
SetColumn(d, name, cells, dtype) ==
    IF HasColumn(d, name)
    THEN Frame(d.columns,
               [i \in 1..Len(d.columns) |->
                   IF i = ColIndex(d, name) THEN cells ELSE d.data[i]],
               [i \in 1..Len(d.columns) |->
                   IF i = ColIndex(d, name) THEN dtype ELSE d.dtype[i]])
    ELSE Frame(Append(d.columns, name), Append(d.data, cells), Append(d.dtype, dtype))

\* DataFrame.rename(columns=mapper): a column whose name is a key of the
\* mapper takes the key's value as its name; other columns keep theirs.
rename(d, mapper) ==
    Frame([i \in 1..Len(d.columns) |->
              IF \E m \in Range(mapper) : m.key = d.columns[i]
              THEN (CHOOSE m \in Range(mapper) : m.key = d.columns[i]).value
              ELSE d.columns[i]],
          d.data, d.dtype)

\* The rows of d at the positions idx (a boolean-mask selection).
TakeRows(d, idx) ==
    Frame(d.columns,
          [c \in 1..Len(d.columns) |-> [k \in 1..Len(idx) |-> d.data[c][idx[k]]]],
          d.dtype)

RECURSIVE RowsWhere(_, _, _, _)
RowsWhere(cells, value, idx, k) ==
    IF k > Len(idx) THEN <<>>
    ELSE IF cells[idx[k]] = value
        THEN <<idx[k]>> \o RowsWhere(cells, value, idx, k + 1)
    ELSE RowsWhere(cells, value, idx, k + 1)

\* filtered_df[filtered_df[name] == value]
FilterEq(d, name, value) ==
    TakeRows(d, RowsWhere(Column(d, name), value, [k \in 1..NRows(d) |-> k], 1))

(***************************************************************************)
(* detect_encoding                                                         *)
(***************************************************************************)
\* A detection that prefers the candidates at the end of the list.
RECURSIVE TryEncodingsBackwards(_, _)
TryEncodingsBackwards(sample, i) ==
    IF i > Len(encodings) THEN "utf-8"
    ELSE IF \E j \in (i + 1)..Len(encodings) : Decodes(sample, encodings[j])
        THEN TryEncodingsBackwards(sample, i + 1)
    ELSE IF Decodes(sample, encodings[i]) THEN encodings[i]
    ELSE "utf-8"

RECURSIVE TryEncodings(_, _)
TryEncodings(sample, i) ==
    IF i > Len(encodings) THEN "utf-8"
    ELSE IF Decodes(sample, encodings[i]) THEN encodings[i]
    ELSE TryEncodings(sample, i + 1)

\* uploaded_file.seek(original_position) after the sample was read.
RestorePosition(original_position, after_read) == original_position

Min(a, b) == IF a < b THEN a ELSE b

detect_encoding(stream, p) ==
    LET sample == ReadBytes(stream, p, SampleSize) IN
    [encoding |-> TryEncodings(sample, 1),
     sample   |-> sample,
     pos      |-> RestorePosition(p, Min(Size(stream), p + SampleSize))]

(***************************************************************************)
(* load_data                                                               *)
(***************************************************************************)
Msg(level, what, arg) == [level |-> level, what |-> what, arg |-> arg]

\* One call of pd.read_csv: the encoding, where the stream stood, the outcome.
Attempt(encoding, start, status) ==
    [encoding |-> encoding, start |-> start, status |-> status]

\* A fallback attempt without the seek: the stream stays where it stood.
KeepPosition(p) == p

\* uploaded_file.seek(0) before a fallback attempt: where the stream stands.
SeekStart(p) == 0

\* The fallback chain: each candidate against the whole stream, the first that
\* decodes wins; when none does, the read with errors='replace', a keyword
\* read_csv does not have (TypeError).
RECURSIVE Fallback(_, _, _, _)

\* After the read r of candidate i from position p.
AfterAttempt(bytes, p, i, attempts, r) ==
    IF r.status = "UnicodeDecodeError"
    THEN Fallback(bytes, Size(bytes), i + 1,
                  Append(attempts, Attempt(encodings[i], p, r.status)))
    ELSE [status |-> r.status, frame |-> r.frame, lossy |-> FALSE,
          attempts |-> Append(attempts, Attempt(encodings[i], p, r.status))]

Fallback(bytes, p, i, attempts) ==
    IF i > Len(encodings)
    THEN [status |-> "TypeError", frame |-> None, lossy |-> TRUE,
          attempts |-> Append(attempts, Attempt("utf-8", SeekStart(p), "TypeError"))]
    ELSE AfterAttempt(bytes, SeekStart(p), i, attempts,
                      read_csv(bytes, SeekStart(p), encodings[i]))

\* A matching loop without the break: the last alias present wins.
RECURSIVE LastPresent(_, _, _)
LastPresent(possible_names, i, columns) ==
    IF i > Len(possible_names) THEN <<>>
    ELSE IF LastPresent(possible_names, i + 1, columns) # <<>>
        THEN LastPresent(possible_names, i + 1, columns)
    ELSE IF possible_names[i] \in Range(columns) THEN <<possible_names[i]>>
    ELSE <<>>

\* The first alias of possible_names that is a column; <<>> when none is.
RECURSIVE FirstPresent(_, _, _)
FirstPresent(possible_names, i, columns) ==
    IF i > Len(possible_names) THEN <<>>
    ELSE IF possible_names[i] \in Range(columns) THEN <<possible_names[i]>>
    ELSE FirstPresent(possible_names, i + 1, columns)

\* actual_columns: for each standard column with an alias among the file's
\* columns, the pair (standard name, alias found), in column_mapping's order.
RECURSIVE MatchColumns(_, _)
MatchColumns(columns, k) ==
    IF k > Len(column_mapping) THEN <<>>
    ELSE LET found == FirstPresent(column_mapping[k].names, 1, columns) IN
         (IF found = <<>> THEN <<>>
          ELSE <<[key |-> column_mapping[k].std, value |-> found[1]]>>)
         \o MatchColumns(columns, k + 1)

\* A missing-column check that looks for the standard names among the
\* aliases found instead of among the fields matched.
MissingByValue(actual_columns) ==
    SelectSeq(required_columns,
              LAMBDA col : ~\E m \in Range(actual_columns) : m.value = col)

\* missing_columns: the required columns without an entry in actual_columns.
MissingColumns(actual_columns) ==
    SelectSeq(required_columns,
              LAMBDA col : ~\E m \in Range(actual_columns) : m.key = col)

numeric_columns == <<N_daily, N_last_month, N_this_month>>

\* df[col] = pd.to_numeric(df[col], errors='coerce')
Coerce(d, col) ==
    LET cells == Column(d, col) IN
    SetColumn(d, col,
              [r \in 1..Len(cells) |-> to_numeric(cells[r])],
              IF \A r \in 1..Len(cells) : IsIntCell(cells[r])
              THEN "int64" ELSE "float64")

\* df.fillna(0): a missing number becomes 0, an empty cell of a text column
\* becomes 0 as well.
FillFrame(d) ==
    Frame(d.columns,
          [c \in 1..Len(d.columns) |->
              [r \in 1..NRows(d) |->
                  IF d.dtype[c] = "object"
                  THEN (IF d.data[c][r] = <<>> THEN <<48>> ELSE d.data[c][r])
                  ELSE fillna(d.data[c][r])]],
          d.dtype)

Change(current, previous) == Sub(current, previous)

ChangePercent(change, previous) == Times(Div(change, replace_0_1(previous)), 100)

Derive(d) ==
    LET prev == Column(d, N_last_month)
        cur == Column(d, N_this_month)
        both == IF d.dtype[ColIndex(d, N_last_month)] = "int64"
                   /\ d.dtype[ColIndex(d, N_this_month)] = "int64"
                THEN "int64" ELSE "float64"
        d1 == SetColumn(d, N_change,
                        [r \in 1..NRows(d) |-> Change(cur[r], prev[r])], both)
        chg == Column(d1, N_change)
        prev1 == Column(d1, N_last_month)
    IN SetColumn(d1, N_change_pct,
                 [r \in 1..NRows(d) |-> ChangePercent(chg[r], prev1[r])], "float64")

\* The encoding of the first read: the manual choice, or the detected one.
\* manual_encoding "" is None.
ChosenEncoding(bytes, p, manual_encoding) ==
    IF manual_encoding = "" THEN detect_encoding(bytes, p)
    ELSE [encoding |-> manual_encoding, sample |-> <<>>, pos |-> p]

\* The first read and, when it cannot decode the file, the fallback chain.
ReadAttempts(bytes, det, first) ==
    IF first.status = "UnicodeDecodeError"
    THEN Fallback(bytes, Size(bytes), 1,
                  <<Attempt(det.encoding, det.pos, first.status)>>)
    ELSE [status |-> first.status, frame |-> first.frame, lossy |-> FALSE,
          attempts |-> <<Attempt(det.encoding, det.pos, first.status)>>]

ReadFile(bytes, det) == ReadAttempts(bytes, det, read_csv(bytes, det.pos, det.encoding))

\* st.warning when the first read could not decode the file.
Warning(fb) ==
    IF fb.attempts[1].status = "UnicodeDecodeError"
    THEN <<Msg("warning", "encoding failed", fb.attempts[1].encoding)>> ELSE <<>>

\* What load_data returns and the messages it shows after the read.
Outcome(frame, msgs) == [df |-> frame, messages |-> msgs]

\* The numeric conversion, fillna and the derived columns.
Clean(d1) ==
    Derive(FillFrame(Coerce(Coerce(Coerce(d1, numeric_columns[1]),
                                   numeric_columns[2]), numeric_columns[3])))

Loaded(d3) == Outcome(d3, <<Msg("info", "rows", NRows(d3))>>)

\* The frame after the rename: df[col] of a numeric column that is not there
\* raises KeyError, which the handler reports.
Convert(d1) ==
    IF \E i \in 1..Len(numeric_columns) : ~HasColumn(d1, numeric_columns[i])
    THEN Outcome(None, <<Msg("error", "load failed", "KeyError")>>)
    ELSE Loaded(Clean(d1))

\* A load without the missing-column check.
SkipColumnCheck(d0, actual_columns, missing_columns) ==
    Convert(rename(d0, actual_columns))

\* The missing-column check: the error and the file's columns, or the rename.
CheckColumns(d0, actual_columns, missing_columns) ==
    IF missing_columns # <<>>
    THEN Outcome(None, <<Msg("error", "missing columns", missing_columns),
                         Msg("info", "file columns", d0.columns)>>)
    ELSE Convert(rename(d0, actual_columns))

Process(fb, actual_columns) ==
    IF fb.status # "ok"
    THEN Outcome(None, <<Msg("error", "load failed", fb.status)>>)
    ELSE CheckColumns(fb.frame, actual_columns, MissingColumns(actual_columns))

\* actual_columns of the frame that was read; empty when none was.
Matched(fb) == IF fb.status = "ok" THEN MatchColumns(fb.frame.columns, 1) ELSE <<>>

\* The outcome of one call of load_data, with what it did on the way.  Every
\* read leaves the stream at its end.
LoadResult(bytes, manual_encoding, det, fb, actual_columns, out) ==
    [df |-> out.df, pos |-> Size(bytes), messages |-> Warning(fb) \o out.messages,
     manual_encoding |-> manual_encoding, sample |-> det.sample,
     detected |-> det.encoding,
     attempts |-> fb.attempts, lossy |-> fb.lossy, read_status |-> fb.status,
     actual_columns |-> actual_columns,
     missing_columns |-> MissingColumns(actual_columns),
     columns |-> IF fb.status = "ok" THEN fb.frame.columns ELSE <<>>]

Reconcile(bytes, manual_encoding, det, fb, actual_columns) ==
    LoadResult(bytes, manual_encoding, det, fb, actual_columns,
               Process(fb, actual_columns))

ReadAndReconcile(bytes, manual_encoding, det, fb) ==
    Reconcile(bytes, manual_encoding, det, fb, Matched(fb))

LoadWith(bytes, manual_encoding, det) ==
    ReadAndReconcile(bytes, manual_encoding, det, ReadFile(bytes, det))

\* load_data(uploaded_file, manual_encoding) with the stream at position p.
load_data(bytes, p, manual_encoding) ==
    LoadWith(bytes, manual_encoding, ChosenEncoding(bytes, p, manual_encoding))

\* What the model keeps of a call of load_data.
Trace(l) ==
    [manual_encoding |-> l.manual_encoding, sample |-> l.sample,
     detected |-> l.detected, attempts |-> l.attempts, lossy |-> l.lossy,
     read_status |-> l.read_status, actual_columns |-> l.actual_columns,
     missing_columns |-> l.missing_columns, columns |-> l.columns,
     messages |-> l.messages, loaded |-> l.df # None]

(***************************************************************************)
(* main: one run of the script for the widgets' current values.            *)
(***************************************************************************)
\* The columns main reads from df before the export (lines 413, 417, 449).
MainColumns == <<N_store, N_category, N_product>>

\* The values a selectbox built from column name offers besides '全部'.
Options(d, name) == IF HasColumn(d, name) THEN Range(Column(d, name)) ELSE {}

ApplyFilters(d, store, category) ==
    LET a == IF store # All THEN FilterEq(d, N_store, store) ELSE d
    IN IF category # All THEN FilterEq(a, N_category, category) ELSE a

\* The calls of load_data of one run: the first, and the reload's when the
\* first returned None under automatic detection and the button was clicked
\* (reload is the encoding chosen then, "" when it was not clicked).
Loads(bytes, option, reload, first) ==
    IF first.df = None /\ option = AutoDetect /\ reload # ""
    THEN <<first, load_data(bytes, first.pos, reload)>>
    ELSE <<first>>

RECURSIVE AllMessages(_, _)
AllMessages(ls, i) ==
    IF i > Len(ls) THEN <<>> ELSE ls[i].messages \o AllMessages(ls, i + 1)

RECURSIVE Traces(_, _)
Traces(ls, i) ==
    IF i > Len(ls) THEN <<>> ELSE <<Trace(ls[i])>> \o Traces(ls, i + 1)

\* What the page shows for the frame d of the last load.
Display(ls, d, store, category) ==
    LET crash == d # None /\ \E i \in 1..Len(MainColumns) : ~HasColumn(d, MainColumns[i])
        shown == d # None /\ ~crash
        st == IF shown /\ store \in Options(d, N_store) THEN store ELSE All
        cat == IF shown /\ category \in Options(d, N_category) THEN category ELSE All
    IN [df |-> d,
        pos |-> ls[Len(ls)].pos,
        messages |-> AllMessages(ls, 1),
        loads |-> Traces(ls, 1),
        crashed |-> crash,
        selected_store |-> st,
        selected_category |-> cat,
        filtered_df |-> IF shown THEN ApplyFilters(d, st, cat) ELSE None]

Export(page) ==
    [df |-> page.df, pos |-> page.pos, messages |-> page.messages,
     loads |-> page.loads, crashed |-> page.crashed,
     selected_store |-> page.selected_store,
     selected_category |-> page.selected_category,
     filtered_df |-> page.filtered_df,
     csv |-> IF page.filtered_df # None
             THEN [bytes |-> EncodeStream(to_csv(page.filtered_df))] ELSE None]

Page(ls, store, category) == Export(Display(ls, ls[Len(ls)].df, store, category))

\* One run of the script.  The stream of the uploaded file starts the run at
\* position 0.
Main(bytes, option, reload, store, category) ==
    CHOOSE page \in
        {Page(ls, store, category) :
            ls \in {Loads(bytes, option, reload,
                          load_data(bytes, 0, IF option = AutoDetect THEN "" ELSE option))}} :
        TRUE
(***************************************************************************)
(* The files the model uploads.                                            *)
(***************************************************************************)
\* The bytes of a character in a GBK file.
GbkChar(c) ==
    IF c < 128 THEN <<c>>
    ELSE LET key == CHOOSE k \in DOMAIN GbkMap : GbkMap[k] = c
         IN <<key \div 256, key % 256>>

RECURSIVE GbkEncodeFrom(_, _)
GbkEncodeFrom(t, i) ==
    IF i > Len(t) THEN <<>> ELSE GbkChar(t[i]) \o GbkEncodeFrom(t, i + 1)

GbkEncode(t) == GbkEncodeFrom(t, 1)

\* A CSV file: a header line and one line per record, the cells given as bytes.
MakeFile(header, records) == <<header>> \o records

StoreA == <<65>>
StoreB == <<66>>
ProductP == <<80>>
CategoryX == <<88>>
CategoryY == <<89>>
Sku1 == <<83, 49>>
TextAbc == <<120, 121, 122>>

\* The cell of a record under the k-th standard column.
BaseCell(k) ==
    CASE k = 1 -> StoreA
      [] k = 2 -> ProductP
      [] k = 3 -> CategoryX
      [] k = 4 -> Sku1
      [] k = 5 -> FormatInt(5)
      [] k = 6 -> FormatInt(100)
      [] k = 7 -> FormatInt(MaxQty)

Fields == 1..Len(column_mapping)

\* Sequences of at most MaxAliases distinct aliases of field k, by position.
AliasChoices(k) ==
    LET n == Len(column_mapping[k].names)
        Seqs == UNION {[1..m -> 1..n] : m \in 0..MaxAliases}
    IN {s \in Seqs : \A i, j \in 1..Len(s) : i # j => s[i] # s[j]}

\* A header in which field k is spelled by the aliases 'choice' (none, one or
\* several, in that order) and every field of 'absent' is left out; the other
\* fields carry their standard name.  One record, a cell under every column.
HeaderColumns(k, choice, absent) ==
    Concat([f \in 1..Len(column_mapping) |->
              IF f \in absent THEN <<>>
              ELSE IF f = k
                  THEN [i \in 1..Len(choice) |->
                          [field |-> f, name |-> column_mapping[f].names[choice[i]]]]
              ELSE <<[field |-> f, name |-> column_mapping[f].std]>>], 1)

HeaderFile(k, choice, absent) ==
    LET cols == HeaderColumns(k, choice, absent) IN
    MakeFile([i \in 1..Len(cols) |-> Utf8Encode(cols[i].name)],
             <<[i \in 1..Len(cols) |-> BaseCell(cols[i].field)]>>)

HeaderFiles ==
    UNION {{HeaderFile(k, choice, {}) : choice \in AliasChoices(k)} : k \in Fields}
    \cup {HeaderFile(1, <<1>>, {f, g}) : f, g \in Fields}

StandardHeader == [k \in 1..Len(required_columns) |-> Utf8Encode(required_columns[k])]

\* What a quantity cell may hold: numbers, text that is no number, nothing,
\* and the infinities pandas parses.
QtyCells ==
    {FormatInt(0), FormatInt(10), FormatInt(100), FormatInt(MaxQty),
     TextAbc, <<>>, TextInf, <<Minus>> \o TextInf}
DailyCells == {FormatInt(5), TextAbc}

Record(store, category, daily, previous, current) ==
    <<store, ProductP, category, Sku1, daily, previous, current>>

FirstRecord == Record(StoreA, CategoryX, FormatInt(5), FormatInt(100), FormatInt(MaxQty))

NumericFiles ==
    {MakeFile(StandardHeader, <<Record(StoreA, CategoryX, d, p, c)>>) :
        d \in DailyCells, p \in QtyCells, c \in QtyCells}
    \cup {MakeFile(StandardHeader, <<FirstRecord, Record(s, g, FormatInt(5), p, FormatInt(10))>>) :
            s \in {StoreA, StoreB}, g \in {CategoryX, CategoryY},
            p \in {FormatInt(0), TextAbc, TextInf}}

\* Store cells as bytes: ASCII, UTF-8, GBK, a GBK character GB2312 lacks,
\* latin1 text, bytes no Chinese codec accepts, and a long cell that ends in
\* multi-byte characters.
StoreCells ==
    {StoreA, Utf8Encode(A_mendian), GbkEncode(A_mendian), <<233, 70>>,
     <<233>>, <<233, 97>>, <<255>>, <<65, 129>>,
     <<-LongPad>> \o Utf8Encode(A_mendian),
     <<-(LongPad + 1)>> \o Utf8Encode(A_mendian)}

\* The header store,product,category,sku,daily,last_month,this_month.
EnglishHeader ==
    <<column_mapping[1].names[2], column_mapping[2].names[3], column_mapping[3].names[2],
      column_mapping[4].names[3], column_mapping[5].names[3], column_mapping[6].names[3],
      column_mapping[7].names[3]>>
\* The header store,product,category,SKU with the numeric columns in Chinese.
MixedHeader ==
    <<column_mapping[1].names[2], column_mapping[2].names[3], column_mapping[3].names[2],
      column_mapping[4].names[4], N_daily, N_last_month, N_this_month>>

HeaderStyles ==
    {StandardHeader,
     [k \in 1..Len(required_columns) |-> GbkEncode(required_columns[k])],
     [k \in 1..Len(EnglishHeader) |-> Utf8Encode(EnglishHeader[k])],
     [k \in 1..Len(MixedHeader) |-> Utf8Encode(MixedHeader[k])]}

EncodingFiles ==
    {MakeFile(h, <<Record(s, CategoryX, FormatInt(5), FormatInt(100), FormatInt(MaxQty))>>) :
        h \in HeaderStyles, s \in StoreCells}

\* A header that spells numeric field k by its a-th alias, over a record whose
\* cell in that column is no number.
AliasTextFile(k, a) ==
    MakeFile([f \in 1..Len(column_mapping) |->
                 Utf8Encode(IF f = k THEN column_mapping[f].names[a]
                            ELSE column_mapping[f].std)],
             <<[f \in 1..Len(column_mapping) |-> IF f = k THEN TextAbc ELSE BaseCell(f)]>>)

AliasTextFiles ==
    {AliasTextFile(k, a) :
        k \in {f \in 1..Len(column_mapping) : column_mapping[f].std \in Range(numeric_columns)},
        a \in 2..3}

Files == HeaderFiles \cup NumericFiles \cup EncodingFiles \cup AliasTextFiles

(***************************************************************************)
(* The state machine: the user's interactions, each a run of main.         *)
(***************************************************************************)
Init ==
    /\ uploaded_file = None
    /\ pos = 0
    /\ encoding_option = AutoDetect
    /\ df = None
    /\ messages = <<>>
    /\ loads = <<>>
    /\ crashed = FALSE
    /\ selected_store = All
    /\ selected_category = All
    /\ filtered_df = None
    /\ csv = None
    /\ exported_from = None

\* What the uploader widget (or the download button) holds.
File(bytes) == [bytes |-> bytes]

\* The script has run from the top with the widgets' values: m is what it
\* produced.
Run(bytes, option, m) ==
    /\ uploaded_file' = File(bytes)
    /\ encoding_option' = option
    /\ pos' = m.pos
    /\ df' = m.df
    /\ messages' = m.messages
    /\ loads' = m.loads
    /\ crashed' = m.crashed
    /\ selected_store' = m.selected_store
    /\ selected_category' = m.selected_category
    /\ filtered_df' = m.filtered_df
    /\ csv' = m.csv

\* The encoding selectbox, set before a file is chosen.
SelectEncoding(option) ==
    /\ uploaded_file = None
    /\ option # encoding_option
    /\ encoding_option' = option
    /\ UNCHANGED <<uploaded_file, pos, df, messages, loads, crashed, selected_store,
                   selected_category, filtered_df, csv, exported_from>>

\* The file uploader receives a file.  The header and numeric families are
\* loaded with automatic detection, the encoding family with every option.
Upload(bytes) ==
    /\ uploaded_file = None
    /\ bytes \in EncodingFiles \/ encoding_option = AutoDetect
    /\ Run(bytes, encoding_option, Main(bytes, encoding_option, "", All, All))
    /\ exported_from' = None

\* The uploader's file is removed.
RemoveFile ==
    /\ uploaded_file # None
    /\ uploaded_file' = None
    /\ pos' = 0
    /\ df' = None
    /\ messages' = <<>>
    /\ loads' = <<>>
    /\ crashed' = FALSE
    /\ selected_store' = All
    /\ selected_category' = All
    /\ filtered_df' = None
    /\ csv' = None
    /\ exported_from' = None
    /\ UNCHANGED encoding_option

\* The button '重新加载文件', offered when the automatic load returned None.
Reload(manual_encoding) ==
    /\ uploaded_file # None
    /\ encoding_option = AutoDetect
    /\ loads # <<>> /\ ~loads[1].loaded
    /\ Run(uploaded_file.bytes, encoding_option,
           Main(uploaded_file.bytes, encoding_option, manual_encoding, All, All))
    /\ UNCHANGED exported_from

SelectStore(store) ==
    /\ df # None /\ ~crashed
    /\ store # selected_store
    /\ store \in {All} \cup Options(df, N_store)
    /\ Run(uploaded_file.bytes, encoding_option,
           Main(uploaded_file.bytes, encoding_option, "", store, selected_category))
    /\ UNCHANGED exported_from

SelectCategory(category) ==
    /\ df # None /\ ~crashed
    /\ category # selected_category
    /\ category \in {All} \cup Options(df, N_category)
    /\ Run(uploaded_file.bytes, encoding_option,
           Main(uploaded_file.bytes, encoding_option, "", selected_store, category))
    /\ UNCHANGED exported_from

\* The downloaded CSV is uploaded again, with automatic detection.
Reimport ==
    /\ csv # None
    /\ encoding_option = AutoDetect
    /\ exported_from = None
    /\ Run(csv.bytes, AutoDetect, Main(csv.bytes, AutoDetect, "", All, All))
    /\ exported_from' = filtered_df

StoreOptions == {All, StoreA, StoreB, A_mendian}
CategoryOptions == {All, CategoryX, CategoryY}

Next ==
    \/ \E option \in Range(EncodingOptions) : SelectEncoding(option)
    \/ \E bytes \in Files : Upload(bytes)
    \/ RemoveFile
    \/ \E manual_encoding \in Range(ManualEncodings) : Reload(manual_encoding)
    \/ \E store \in StoreOptions : SelectStore(store)
    \/ \E category \in CategoryOptions : SelectCategory(category)
    \/ Reimport

Spec == Init /\ [][Next]_vars


(***************************************************************************)
(* Adequacy of the GBK table: every two-byte sequence a GBK or GB2312      *)
(* decoder can meet in a file of the model has an entry of GbkPairs (its   *)
(* character, or -1 when GBK assigns it none).                             *)
(***************************************************************************)
GbkTableCovers ==
    uploaded_file # None =>
        \A i \in 1..Len(uploaded_file.bytes) :
            \A j \in 1..Len(uploaded_file.bytes[i]) :
                \A k \in 1..(Len(uploaded_file.bytes[i][j]) - 1) :
                    (/\ uploaded_file.bytes[i][j][k] >= 0
                     /\ GbkLead(uploaded_file.bytes[i][j][k])
                     /\ GbkTrail(FirstByte(uploaded_file.bytes[i][j][k + 1])))
                    => GbkKey(uploaded_file.bytes[i][j][k],
                              FirstByte(uploaded_file.bytes[i][j][k + 1]))
                           \in DOMAIN GbkMap

(***************************************************************************)
(* Properties.                                                             *)
(***************************************************************************)
\* The k-th canonical field has an alias among the columns.
HasAlias(k, columns) ==
    \E n \in 1..Len(column_mapping[k].names) :
        column_mapping[k].names[n] \in Range(columns)

\* The header reconciles: every canonical field has an alias in it.
Reconciles(columns) == \A k \in 1..Len(column_mapping) : HasAlias(k, columns)

\* The declared alias list of the canonical field std.
AliasesOf(std) ==
    column_mapping[CHOOSE k \in 1..Len(column_mapping) : column_mapping[k].std = std].names

\* The positions, in the declared alias list of std, of the aliases present.
PresentAliases(std, columns) ==
    {n \in 1..Len(AliasesOf(std)) : AliasesOf(std)[n] \in Range(columns)}

\* The canonical fields with no alias among the columns, in canonical order.
FieldsWithoutAlias(columns) ==
    SelectSeq(required_columns, LAMBDA col : PresentAliases(col, columns) = {})

\* The load that decides main's df.
LastLoad == loads[Len(loads)]

\* Number of bytes of a sample kept as the pieces between separators (the
\* separator after the last piece, when the sample ends with one, not counted).
SampleBytes(pieces) == LineSize(pieces) - 1

\* C1: whenever the header that was read holds an alias of each of the seven
\* canonical fields, the reconciliation maps all seven fields, in canonical
\* order, each to an alias of its own that is a column of the file; the
\* missing-column list is empty and no missing-column error is reported.
C1_CompleteMapping ==
    \A i \in 1..Len(loads) :
        (loads[i].read_status = "ok" /\ Reconciles(loads[i].columns)) =>
            /\ [j \in 1..Len(loads[i].actual_columns) |-> loads[i].actual_columns[j].key]
                   = required_columns
            /\ \A j \in 1..Len(loads[i].actual_columns) :
                   /\ loads[i].actual_columns[j].value \in Range(loads[i].columns)
                   /\ loads[i].actual_columns[j].value
                          \in Range(AliasesOf(loads[i].actual_columns[j].key))
            /\ loads[i].missing_columns = <<>>
            /\ \A m \in 1..Len(loads[i].messages) :
                   loads[i].messages[m].what # "missing columns"

\* A header that reconciles through an alias that is not the canonical name.
C1_AliasHeaderLoaded ==
    \E i \in 1..Len(loads) :
        /\ loads[i].read_status = "ok"
        /\ Reconciles(loads[i].columns)
        /\ Len(loads[i].actual_columns) = Len(required_columns)
        /\ \E j \in 1..Len(loads[i].actual_columns) :
               loads[i].actual_columns[j].value # loads[i].actual_columns[j].key

\* C2: whenever some canonical field has no alias in the header that was
\* read, load_data reports as missing exactly the canonical fields without an
\* alias, shows the file's own columns, and returns None (main then has no
\* table, no filtered table and no export).
C2_MissingExactly ==
    \A i \in 1..Len(loads) :
        (loads[i].read_status = "ok" /\ ~Reconciles(loads[i].columns)) =>
            /\ loads[i].missing_columns = FieldsWithoutAlias(loads[i].columns)
            /\ loads[i].missing_columns # <<>>
            /\ \E m \in 1..Len(loads[i].messages) :
                   loads[i].messages[m] =
                       Msg("error", "missing columns", FieldsWithoutAlias(loads[i].columns))
            /\ \E m \in 1..Len(loads[i].messages) :
                   loads[i].messages[m] = Msg("info", "file columns", loads[i].columns)
            /\ ~loads[i].loaded
            /\ (i = Len(loads) => df = None /\ filtered_df = None /\ csv = None)

\* A header with two fields missing and others present was rejected.
C2_TwoFieldsMissing ==
    \E i \in 1..Len(loads) :
        /\ loads[i].read_status = "ok"
        /\ Len(loads[i].missing_columns) = 2
        /\ Len(loads[i].actual_columns) = Len(required_columns) - 2
        /\ ~loads[i].loaded
        /\ df = None

\* C3: the encoding detect_encoding returns is the earliest candidate of the
\* list under which the sample decodes, and 'utf-8' when none decodes it; the
\* sample holds at most SampleSize bytes.
C3_EarliestCandidate ==
    \A i \in 1..Len(loads) :
        loads[i].manual_encoding = "" =>
            /\ SampleBytes(loads[i].sample) <= SampleSize
            /\ IF \E j \in 1..Len(encodings) : Decodes(loads[i].sample, encodings[j])
               THEN \E j \in 1..Len(encodings) :
                       /\ loads[i].detected = encodings[j]
                       /\ Decodes(loads[i].sample, encodings[j])
                       /\ \A k \in 1..(j - 1) : ~Decodes(loads[i].sample, encodings[k])
               ELSE loads[i].detected = "utf-8"

\* A sample that is not UTF-8 was detected as the next candidate that decodes it.
C3_LaterCandidateDetected ==
    \E i \in 1..Len(loads) :
        /\ loads[i].manual_encoding = ""
        /\ loads[i].sample # <<>>
        /\ ~Decodes(loads[i].sample, "utf-8")
        /\ loads[i].detected = "gbk"

\* The derived columns of row r of the loaded table obey the formulas when
\* the two quantities are finite: change = current - previous, the divisor
\* (previous, or 1 when previous is 0) is not zero, and
\* change percent = change / divisor * 100, a finite number.
DerivedRowOk(r) ==
    LET prev == Column(df, N_last_month)[r]
        cur == Column(df, N_this_month)[r]
        chg == Column(df, N_change)[r]
        pct == Column(df, N_change_pct)[r]
        dn == IF prev.n = 0 THEN 1 ELSE prev.n
        dd == IF prev.n = 0 THEN 1 ELSE prev.d
    IN (prev.k = "fin" /\ cur.k = "fin") =>
           /\ chg.k = "fin"
           /\ chg.n * prev.d * cur.d = (cur.n * prev.d - prev.n * cur.d) * chg.d
           /\ dn # 0
           /\ pct.k = "fin"
           /\ pct.n * chg.d * dn = 100 * chg.n * dd * pct.d

\* C4 (amended): for every record of a loaded table whose previous and
\* current quantities are finite, change = current - previous and
\* change percent = change / (previous, or 1 when previous is 0) * 100; the
\* divisor is not zero and the change percent is finite.
C4_DerivedFormulas ==
    df # None => \A r \in 1..NRows(df) : DerivedRowOk(r)

\* C4 as stated: the formulas hold and the change percent of every record of
\* a loaded table is a finite number.
C4_PercentAlwaysFinite ==
    df # None =>
        \A r \in 1..NRows(df) :
            /\ DerivedRowOk(r)
            /\ Column(df, N_change_pct)[r].k = "fin"

\* The zero guard at work: previous 0, current 10 gives change 10 and 1000 percent.
C4_ZeroGuardRow ==
    /\ df # None
    /\ \E r \in 1..NRows(df) :
           /\ Column(df, N_last_month)[r] = Fin(0, 1)
           /\ Column(df, N_this_month)[r] = Fin(10, 1)
           /\ Column(df, N_change)[r] = Fin(10, 1)
           /\ Column(df, N_change_pct)[r] = Fin(1000, 1)

\* The column of the file that the reconciliation chose for the field std.
ChosenColumn(l, std) ==
    ColIndex(Frame(l.columns, <<>>, <<>>),
             l.actual_columns[CHOOSE j \in 1..Len(l.actual_columns) :
                                 l.actual_columns[j].key = std].value)

\* The number a numeric cell of the file stands for after coercion and fillna.
CoercedCell(bytes) == IF to_numeric(bytes) = NaN THEN Fin(0, 1) ELSE to_numeric(bytes)

\* C5: for every file whose header reconciles, the load succeeds, the loaded
\* table has a row per record of the file, and each cell of the three numeric
\* columns holds the number parsed from the file's cell, 0 when the cell is
\* no number.
C5_UnparseableBecomesZero ==
    (/\ Len(loads) = 1
     /\ loads[1].read_status = "ok"
     /\ loads[1].missing_columns = <<>>) =>
        /\ df # None
        /\ NRows(df) = Len(uploaded_file.bytes) - 1
        /\ \A k \in 1..Len(numeric_columns) :
               /\ HasColumn(df, numeric_columns[k])
               /\ \A r \in 1..NRows(df) :
                      Column(df, numeric_columns[k])[r] =
                          CoercedCell(uploaded_file.bytes[r + 1]
                                          [ChosenColumn(loads[1], numeric_columns[k])])

\* C6: the alias the reconciliation chooses for a field is the one that
\* comes first in the field's declared alias list among those present in
\* the header, wherever the columns stand in the file.
C6_FirstAliasWins ==
    \A i \in 1..Len(loads) :
        loads[i].read_status = "ok" =>
            \A j \in 1..Len(loads[i].actual_columns) :
                \E n \in PresentAliases(loads[i].actual_columns[j].key, loads[i].columns) :
                    /\ AliasesOf(loads[i].actual_columns[j].key)[n]
                           = loads[i].actual_columns[j].value
                    /\ \A m \in PresentAliases(loads[i].actual_columns[j].key,
                                               loads[i].columns) : n <= m

\* Two aliases of one field present, the one declared first standing later
\* in the file, and chosen.
C6_LaterColumnChosen ==
    \E i \in 1..Len(loads) :
        /\ loads[i].read_status = "ok"
        /\ \E j \in 1..Len(loads[i].actual_columns) :
               \E a, b \in 1..Len(loads[i].columns) :
                   /\ a < b
                   /\ loads[i].columns[b] = loads[i].actual_columns[j].value
                   /\ loads[i].columns[a] # loads[i].columns[b]
                   /\ loads[i].columns[a]
                          \in Range(AliasesOf(loads[i].actual_columns[j].key))

\* C7: when the first read of the file raises a decoding error, load_data
\* warns and reads the whole stream again with the candidates in order, each
\* from byte 0, until one decodes it; that one's table is the one used.  The
\* chain always ends that way: no load ends on a decoding error, and the
\* lossy read is never reached.
C7_DecodeFailureNotFatal ==
    \A i \in 1..Len(loads) :
        /\ ~loads[i].lossy
        /\ loads[i].read_status # "UnicodeDecodeError"
        /\ loads[i].attempts[1].status = "UnicodeDecodeError" =>
               /\ Len(loads[i].attempts) >= 2
               /\ \A n \in 2..Len(loads[i].attempts) :
                      /\ loads[i].attempts[n].encoding = encodings[n - 1]
                      /\ loads[i].attempts[n].start = 0
                      /\ (n < Len(loads[i].attempts)
                             => loads[i].attempts[n].status = "UnicodeDecodeError")
               /\ loads[i].attempts[Len(loads[i].attempts)].status = "ok"
               /\ loads[i].read_status = "ok"
               /\ loads[i].columns =
                      [c \in 1..Len(uploaded_file.bytes[1]) |->
                          DecodeCell(uploaded_file.bytes[1][c],
                                     loads[i].attempts[Len(loads[i].attempts)].encoding).text]
               /\ loads[i].messages[1] =
                      Msg("warning", "encoding failed", loads[i].attempts[1].encoding)

\* A first read failed and the chain went past its first candidate to one
\* that decoded the file, which then loaded.
C7_FallbackReachedLaterCandidate ==
    \E i \in 1..Len(loads) :
        /\ loads[i].attempts[1].status = "UnicodeDecodeError"
        /\ Len(loads[i].attempts) >= 3
        /\ loads[i].read_status = "ok"
        /\ loads[i].loaded

\* C8: the export of a filtered table, loaded again, gives a table with the
\* same change and change percent columns, row for row.
C8_RoundTrip ==
    exported_from # None =>
        /\ df # None
        /\ HasColumn(df, N_change) /\ HasColumn(df, N_change_pct)
        /\ Column(df, N_change) = Column(exported_from, N_change)
        /\ Column(df, N_change_pct) = Column(exported_from, N_change_pct)

\* C9: whenever load_data accepts a file (its read succeeded and no column
\* is missing), the table it returns has a column under each of the seven
\* canonical names, and main's filters find their columns.
C9_CanonicalColumns ==
    (/\ loads # <<>>
     /\ LastLoad.read_status = "ok"
     /\ LastLoad.missing_columns = <<>>) =>
        /\ df # None
        /\ \A k \in 1..Len(required_columns) : HasColumn(df, required_columns[k])
        /\ ~crashed

\* C10: every read of the full file starts at byte 0 of the stream.
C10_AttemptsStartAtZero ==
    \A i \in 1..Len(loads) :
        \A n \in 1..Len(loads[i].attempts) : loads[i].attempts[n].start = 0
====
